---- MODULE Spec2Model ----
\* Model of the LLVM build scripts: src/src/llvmbuild/cli.py (chained click
\* commands config/build/install/test) and src/build.py (one monolithic main).
\*
\* Text is a sequence of fragments.  Names the code inspects (lower(),
\* capitalize(), replace(), "x in joined_string") are spelled one character
\* per fragment; literals the code only copies are one fragment.
EXTENDS Integers, Sequences, FiniteSets, TLC

\* ---------------------------------------------------------------- bounds
MaxChain == 3       \* longest chain of subcommands on one command line
MaxProjects == 2    \* most --enable-projects values on one command line
MaxRuntimes == 1    \* most --enable-runtimes values on one command line
MaxTargets == 2     \* most --enable-targets values on one command line
MaxCpu == 12        \* largest os.cpu_count() explored
MaxRuns == 2        \* process runs compared with identical inputs

\* None where a text is expected (shutil.which), as an f-string prints it
NoneV == <<"None">>
\* None where a path is expected
NoPath == <<>>
\* no --jobs on the command line; <<n>> is --jobs n
NoJobs == <<>>
\* the exit status of a process that has not exited
Running == -1

\* ---------------------------------------------------------------- text
Upper == <<"A","B","C","D","E","F","G","H","I","J","K","L","M",
           "N","O","P","Q","R","S","T","U","V","W","X","Y","Z">>
Lower == <<"a","b","c","d","e","f","g","h","i","j","k","l","m",
           "n","o","p","q","r","s","t","u","v","w","x","y","z">>

\* str.lower() on one character
LowerChar(c) ==
  IF \E i \in 1..26 : Upper[i] = c
  THEN Lower[CHOOSE i \in 1..26 : Upper[i] = c] ELSE c

\* str.upper() on one character
UpperChar(c) ==
  IF \E i \in 1..26 : Lower[i] = c
  THEN Upper[CHOOSE i \in 1..26 : Lower[i] = c] ELSE c

\* str.lower()
StrLower(s) == [i \in 1..Len(s) |-> LowerChar(s[i])]

\* str.capitalize(): first character upper, the rest lower
StrCapitalize(s) ==
  [i \in 1..Len(s) |-> IF i = 1 THEN UpperChar(s[i]) ELSE LowerChar(s[i])]

\* str.replace(a, b) for single characters a, b
StrReplace(s, a, b) == [i \in 1..Len(s) |-> IF s[i] = a THEN b ELSE s[i]]

\* mutant: the needle is only looked for at the start
StrContains_Prefix(needle, hay) ==
  /\ Len(hay) >= Len(needle)
  /\ \A i \in 1..Len(needle) : hay[i] = needle[i]

\* Python's "needle in hay" on strings: substring test
StrContains(needle, hay) ==
  \E k \in 0..(Len(hay) - Len(needle)) :
     \A i \in 1..Len(needle) : hay[k + i] = needle[i]

RECURSIVE StrJoin(_, _)
\* sep.join(parts) for a sequence of texts
StrJoin(sep, parts) ==
  IF Len(parts) = 0 THEN <<>>
  ELSE IF Len(parts) = 1 THEN parts[1]
  ELSE parts[1] \o sep \o StrJoin(sep, Tail(parts))

Digit == <<"0","1","2","3","4","5","6","7","8","9">>

RECURSIVE IntStr(_)
\* str(n) for n >= 0: decimal digits
IntStr(n) ==
  IF n < 10 THEN <<Digit[n + 1]>>
  ELSE IntStr(n \div 10) \o <<Digit[(n % 10) + 1]>>

\* the iteration orders a Python set of strings can have: string hashes are
\* salted per process, so any order of the elements can come out
SetOrders(S) ==
  {q \in [1..Cardinality(S) -> S] : \A e \in S : \E i \in DOMAIN q : q[i] = e}

\* ---------------------------------------------------------------- paths
\* a pathlib.Path is the sequence of its components, root first
PathJoin(p, name) == Append(p, name)

\* mutant: the first component instead of the last
PathName_First(p) == p[1]

\* Path.name: the last component
PathName(p) == p[Len(p)]

\* str(path): "/" before every component
PathStr(p) == StrJoin(<<>>, [i \in 1..Len(p) |-> <<"/">> \o p[i]])

\* ---------------------------------------------------------------- catalogs
Release == <<"R","e","l","e","a","s","e">>
Debug == <<"D","e","b","u","g">>
build_type_options == <<Release, Debug>>

Ninja == <<"Ninja">>
UnixMakefiles == <<"Unix Makefiles">>
cmake_generators == <<Ninja, UnixMakefiles>>

lld == <<"l","l","d">>
gold == <<"g","o","l","d">>
ld == <<"l","d">>
linker_options == <<lld, gold, ld>>

bolt == <<"b","o","l","t">>
clang == <<"c","l","a","n","g">>
clang_tools_extra == <<"c","l","a","n","g","-","t","o","o","l","s","-","e","x","t","r","a">>
compiler_rt == <<"c","o","m","p","i","l","e","r","-","r","t">>
cross_project_tests == <<"c","r","o","s","s","-","p","r","o","j","e","c","t","-","t","e","s","t","s">>
flang == <<"f","l","a","n","g">>
libc == <<"l","i","b","c">>
libclc == <<"l","i","b","c","l","c">>
lldb == <<"l","l","d","b">>
mlir == <<"m","l","i","r">>
openmp == <<"o","p","e","n","m","p">>
polly == <<"p","o","l","l","y">>
pstl == <<"p","s","t","l">>
libunwind == <<"l","i","b","u","n","w","i","n","d">>
libcxxabi == <<"l","i","b","c","x","x","a","b","i">>
libcxx == <<"l","i","b","c","x","x">>
llvm_libgcc == <<"l","l","v","m","-","l","i","b","g","c","c">>

llvm_projects ==
  <<bolt, clang, clang_tools_extra, compiler_rt, cross_project_tests, flang,
    libc, libclc, lld, lldb, mlir, openmp, polly, pstl>>

llvm_runtimes ==
  <<libc, libunwind, libcxxabi, pstl, libcxx, compiler_rt, openmp, llvm_libgcc>>

AArch64 == <<"A","A","r","c","h","6","4">>
AMDGPU == <<"A","M","D","G","P","U">>
ARM == <<"A","R","M">>
BPF == <<"B","P","F">>
Hexagon == <<"H","e","x","a","g","o","n">>
Lanai == <<"L","a","n","a","i">>
Mips == <<"M","i","p","s">>
MSP430 == <<"M","S","P","4","3","0">>
NVPTX == <<"N","V","P","T","X">>
PowerPC == <<"P","o","w","e","r","P","C">>
RISCV == <<"R","I","S","C","V">>
Sparc == <<"S","p","a","r","c">>
SystemZ == <<"S","y","s","t","e","m","Z">>
WebAssembly == <<"W","e","b","A","s","s","e","m","b","l","y">>
X86 == <<"X","8","6">>
XCore == <<"X","C","o","r","e">>

llvm_targets ==
  <<AArch64, AMDGPU, ARM, BPF, Hexagon, Lanai, Mips, MSP430, NVPTX, PowerPC,
    RISCV, Sparc, SystemZ, WebAssembly, X86, XCore>>

Range(q) == {q[i] : i \in DOMAIN q}

\* the project catalog of build.py
debuginfo_tests == <<"d","e","b","u","g","i","n","f","o","-","t","e","s","t","s">>
llgo == <<"l","l","g","o">>
parallel_libs == <<"p","a","r","a","l","l","e","l","-","l","i","b","s">>

main_llvm_projects ==
  <<clang, clang_tools_extra, compiler_rt, debuginfo_tests, libc, libclc,
    libcxx, libcxxabi, libunwind, lld, lldb, llgo, openmp, parallel_libs,
    polly, pstl>>

\* click.Choice(choices, case_sensitive=False).convert: the catalog entry whose
\* case-folded form equals the case-folded value
ClickChoice(value, choices) ==
  choices[CHOOSE i \in DOMAIN choices : StrLower(choices[i]) = StrLower(value)]

\* ---------------------------------------------------------------- state
VARIABLES
  variant,    \* "cli": src/llvmbuild/cli.py is run; "main": build.py is run
  argv,       \* the command line options of this invocation
  env,        \* cwd, branch name, cpu count, tools found on PATH
  order,      \* iteration order of this process's sets of strings
  fs,         \* the directories: source, llvm root, build, install
  fs0,        \* the directories when the process started
  ctx,        \* ctx.obj of cli.py / the args namespace of build.py
  cmds,       \* build.py: the four command vectors main() prepares
  pc,         \* position of the process
  invoked,    \* cli.py: the subcommands invoked so far, in order
  stdout,     \* the command lines printed by runShellCommand
  spawned,    \* the external processes run, with their return codes
  stderr,     \* warnings and fatal errors written
  exitCode,   \* exit status of the process, Running until it exits
  run,        \* number of the current process run
  prevOut     \* stdout of the previous run with the same inputs

vars == <<variant, argv, env, order, fs, fs0, ctx, cmds, pc, invoked, stdout,
          spawned, stderr, exitCode, run, prevOut>>

\* ---------------------------------------------------------------- filesystem
\* a directory is "missing", "empty" or "full"
DirStates == {"missing", "empty", "full"}

\* Path.exists()
Exists(d) == d # "missing"

\* mutant: a directory that exists counts as non-empty
isDirectoryEmpty_OnlyMissing(d) == ~Exists(d)

\* isDirectoryEmpty(path)
isDirectoryEmpty(d) == ~Exists(d) \/ d = "empty"

\* Path.mkdir(parents=True, exist_ok=True)
Mkdir(d) == IF d = "missing" THEN "empty" ELSE d

\* what the external process of a stage can leave behind: cmake's configure
\* step writes its cache into the build directory, the install step writes
\* into the install prefix; either may also stop before writing anything
ProcEffect(stage, f) ==
  CASE stage = "config"  -> {f, [f EXCEPT !.build = "full"]}
    [] stage = "install" -> {f, [f EXCEPT !.install = "full"]}
    [] OTHER             -> {f}

\* the return codes of an external process: success or a failure
ReturnCodes == {0, 2}

\* ctx.obj / args before the paths are resolved
NoCtx ==
  [source |-> NoPath, build |-> NoPath, install |-> NoPath,
   build_type |-> <<>>, print_only |-> FALSE, generator |-> <<>>]

\* build.py before main() has prepared its command vectors
NoCmds == [config |-> <<>>, build |-> <<>>, install |-> <<>>, test |-> <<>>]

\* mutant: the directory is created in print-only mode too
MakeDir_Always(print_only, d) == Mkdir(d)

\* "if not print_only: path.mkdir(parents=True, exist_ok=True)"
MakeDir(print_only, d) == IF ~print_only THEN Mkdir(d) ELSE d

\* ---------------------------------------------------------------- messages
Warning(id, arg) == [kind |-> "Warning", id |-> id, arg |-> arg]
FatalError(id, arg) == [kind |-> "Fatal", id |-> id, arg |-> arg]

\* printFatalError(error_msg): write the message, exit(1)
printFatalError(err, msg) ==
  /\ stderr' = Append(err, msg)
  /\ exitCode' = 1
  /\ pc' = "done"

\* mutant: the return code of the command is not inspected
runShellCommand_IgnoreReturnCode(command, print_only, stage, f, err, next) ==
  /\ stdout' = Append(stdout, command)
  /\ stderr' = err
  /\ pc' = next
  /\ UNCHANGED exitCode
  /\ IF ~print_only
     THEN \E returncode \in ReturnCodes, g \in ProcEffect(stage, f) :
            /\ spawned' = Append(spawned, [stage |-> stage, cmd |-> command,
                                           rc |-> returncode])
            /\ fs' = g
     ELSE /\ fs' = f
          /\ UNCHANGED spawned

\* runShellCommand(command, error_msg, print_only): print the command; unless
\* print_only, run it and wait; a non-zero return code is fatal.  f is the
\* filesystem the command starts in, err the messages written so far, next
\* the position reached when the call returns.
runShellCommand(command, print_only, stage, f, err, next) ==
  /\ stdout' = Append(stdout, command)
  /\ IF ~print_only
     THEN \E returncode \in ReturnCodes, g \in ProcEffect(stage, f) :
            /\ spawned' = Append(spawned, [stage |-> stage, cmd |-> command,
                                           rc |-> returncode])
            /\ fs' = g
            /\ IF returncode # 0
               THEN printFatalError(err,
                      FatalError("CommandFailed", <<command, returncode>>))
               ELSE /\ stderr' = err
                    /\ pc' = next
                    /\ UNCHANGED exitCode
     ELSE /\ fs' = f
          /\ stderr' = err
          /\ pc' = next
          /\ UNCHANGED <<spawned, exitCode>>

\* int(b) for a bool b
BoolInt(b) == IF b THEN 1 ELSE 0

\* ---------------------------------------------------------------- cli.py
\* the group callback cli(): check the source path, derive the default build
\* and install paths, fill ctx.obj
Cli ==
  /\ variant = "cli"
  /\ pc = "start"
  /\ UNCHANGED <<variant, argv, env, order, fs, fs0, cmds, invoked, stdout,
                 spawned, run, prevOut>>
  /\ IF ~Exists(fs.source)
     THEN /\ printFatalError(stderr,
                FatalError("SourcePathMissing", argv.source_path))
          /\ UNCHANGED ctx
     ELSE LET build_type == ClickChoice(argv.build_type, build_type_options)
              default_build_path ==
                PathJoin(PathJoin(env.cwd, <<"builds">>),
                         StrLower(PathName(argv.source_path)))
              branch_name == StrReplace(env.branch, "/", "-")
              default_install_path ==
                PathJoin(PathJoin(PathJoin(env.cwd, <<"installs">>),
                                  branch_name), StrLower(build_type))
              build0 == IF argv.build_path = NoPath THEN default_build_path
                        ELSE argv.build_path
          IN /\ ctx' = [source |-> argv.source_path,
                        build |-> PathJoin(build0, StrLower(build_type)),
                        install |-> IF argv.install_path = NoPath
                                    THEN default_install_path
                                    ELSE argv.install_path,
                        build_type |-> StrCapitalize(build_type),
                        print_only |-> argv.print_only,
                        generator |-> argv.generator]
             /\ pc' = "chain"
             /\ UNCHANGED <<stderr, exitCode>>

\* the argument vector config() builds from ctx.obj and its locals o
cmake_config_command(c, o) ==
  << <<"cmake">>,
     <<"-S">> \o PathStr(o.llvm_root_path),
     <<"-B">> \o PathStr(c.build),
     <<"-G">> \o c.generator,
     <<"-DCMAKE_BUILD_TYPE=">> \o c.build_type,
     <<"-DCMAKE_INSTALL_PREFIX=">> \o PathStr(c.install),
     <<"-DLLVM_ENABLE_PROJECTS=">> \o o.enable_projects,
     <<"-DLLVM_ENABLE_RUNTIMES=">> \o o.enable_runtimes,
     <<"-DLLVM_TARGETS_TO_BUILD=">> \o o.enable_targets,
     <<"-DCLANG_VENDOR=OmpCluster">>,
     <<"-DLIBOMPTARGET_ENABLE_DEBUG=">> \o IntStr(o.debug_messages),
     <<"-DLLVM_ENABLE_ASSERTIONS=On">>,
     <<"-DCMAKE_EXPORT_COMPILE_COMMANDS=On">>,
     <<"-DLLVM_INCLUDE_BENCHMARKS=Off">>,
     <<"-DLIBOMPTARGET_ENABLE_PROFILER=">> \o IntStr(o.profiler),
     <<"-DOPENMP_STANDALONE_BUILD=">> \o IntStr(o.openmp_standalone) >>
  \o (IF ~o.use_env_compiler
      THEN << <<"-DCMAKE_C_COMPILER=">> \o o.clang_path,
              <<"-DCMAKE_CXX_COMPILER=">> \o o.clangxx_path,
              <<"-DLLVM_USE_LINKER=">> \o o.linker >>
      ELSE <<>>)
  \o (IF ~o.disable_ccache THEN << <<"-DLLVM_CCACHE_BUILD=ON">> >> ELSE <<>>)
  \o (IF c.build_type = Debug
      THEN << <<"-DBUILD_SHARED_LIBS=1">>, <<"-DLLVM_USE_SPLIT_DWARF=1">> >>
      ELSE <<>>)
  \o (IF StrContains(NVPTX, o.enable_targets)
      THEN << <<"-DCLANG_OPENMP_NVPTX_DEFAULT_ARCH=sm_86">>,
              <<"-DLIBOMPTARGET_NVPTX_COMPUTE_CAPABILITIES=86">> >>
      ELSE <<>>)

\* the locals of config() once the sets are joined
ConfigLocals(disable_ccache, use_env_compiler) ==
  LET enable_projects == StrJoin(<<";">>, order.projects)
  IN [llvm_root_path |-> PathJoin(ctx.source, <<"llvm">>),
      enable_projects |-> enable_projects,
      enable_runtimes |-> StrJoin(<<";">>, order.runtimes),
      enable_targets |-> StrJoin(<<";">>, order.targets),
      openmp_standalone |->
        BoolInt(StrContains(openmp, enable_projects)
                /\ ~StrContains(clang, enable_projects)),
      debug_messages |-> BoolInt(~argv.disable_debug_messages),
      profiler |-> BoolInt(~argv.disable_profiler),
      use_env_compiler |-> use_env_compiler,
      clang_path |-> env.clang,
      clangxx_path |-> env.clangxx,
      linker |-> argv.linker,
      disable_ccache |-> disable_ccache]

\* mutant: only a project set contained in the runtime set is rejected
NotDisjoint_Subset(enable_projects, enable_runtimes) ==
  enable_projects \subseteq enable_runtimes

\* "not enable_projects.isdisjoint(enable_runtimes)"
NotDisjoint(enable_projects, enable_runtimes) ==
  enable_projects \cap enable_runtimes # {}

\* the config subcommand
Config ==
  /\ variant = "cli"
  /\ pc = "chain"
  /\ Len(invoked) < MaxChain
  /\ invoked' = Append(invoked, "config")
  /\ UNCHANGED <<variant, argv, env, order, fs0, ctx, cmds, run, prevOut>>
  /\ IF ~Exists(fs.llvm)
     THEN /\ printFatalError(stderr,
                FatalError("LLVMRootNotFound", PathJoin(ctx.source, <<"llvm">>)))
          /\ UNCHANGED <<fs, stdout, spawned>>
     ELSE LET err1 == IF Exists(fs.build) /\ ~isDirectoryEmpty(fs.build)
                      THEN Append(stderr, Warning("BuildPathNotEmpty", ctx.build))
                      ELSE stderr
              fs1 == [fs EXCEPT !.build = MakeDir(ctx.print_only, fs.build)]
              no_ccache == ~argv.disable_ccache /\ env.ccache = NoneV
              err2 == IF no_ccache
                      THEN Append(err1, Warning("CCacheNotInstalled", <<>>))
                      ELSE err1
              disable_ccache == argv.disable_ccache \/ no_ccache
              no_clang == (~argv.use_env_compiler /\ env.clang = NoneV)
                          \/ env.clangxx = NoneV
              err3 == IF no_clang
                      THEN Append(err2, Warning("ClangNotFound", <<>>))
                      ELSE err2
              use_env_compiler == argv.use_env_compiler \/ no_clang
              enable_projects == argv.enable_projects
              enable_runtimes == argv.enable_runtimes
          IN IF NotDisjoint(enable_projects, enable_runtimes)
             THEN /\ printFatalError(err3,
                       FatalError("NotDisjoint",
                                  <<enable_projects, enable_runtimes,
                                    enable_projects \cap enable_runtimes>>))
                  /\ fs' = fs1
                  /\ UNCHANGED <<stdout, spawned>>
             ELSE runShellCommand(
                    cmake_config_command(ctx,
                        ConfigLocals(disable_ccache, use_env_compiler)),
                    ctx.print_only, "config", fs1, err3, "chain")

\* int(os.cpu_count() * 0.90): the product is a double a little above
\* 9n/10 (0.9 rounds up to the nearest double), int() truncates
DefaultJobs(cpu_count) == (cpu_count * 90) \div 100

\* the build subcommand
Build ==
  /\ variant = "cli"
  /\ pc = "chain"
  /\ Len(invoked) < MaxChain
  /\ invoked' = Append(invoked, "build")
  /\ UNCHANGED <<variant, argv, env, order, fs0, ctx, cmds, run, prevOut>>
  /\ IF ~Exists(fs.build) \/ isDirectoryEmpty(fs.build)
     THEN /\ printFatalError(stderr, FatalError("BuildPathEmpty", ctx.build))
          /\ UNCHANGED <<fs, stdout, spawned>>
     ELSE LET jobs == IF argv.jobs = NoJobs THEN DefaultJobs(env.cpu_count)
                      ELSE argv.jobs[1]
          IN runShellCommand(
               << <<"cmake">>, <<"--build">>, PathStr(ctx.build), <<"-j">>,
                  IntStr(jobs) >>,
               ctx.print_only, "build", fs, stderr, "chain")

\* the install subcommand
Install ==
  /\ variant = "cli"
  /\ pc = "chain"
  /\ Len(invoked) < MaxChain
  /\ invoked' = Append(invoked, "install")
  /\ UNCHANGED <<variant, argv, env, order, fs0, ctx, cmds, run, prevOut>>
  /\ IF ~Exists(fs.build) \/ isDirectoryEmpty(fs.build)
     THEN /\ printFatalError(stderr, FatalError("BuildPathEmpty", ctx.build))
          /\ UNCHANGED <<fs, stdout, spawned>>
     ELSE LET fs1 == [fs EXCEPT
                        !.install = MakeDir(ctx.print_only, fs.install)]
          IN IF ~Exists(fs1.install)
             THEN /\ printFatalError(stderr,
                        FatalError("InstallPathMissing", ctx.install))
                  /\ fs' = fs1
                  /\ UNCHANGED <<stdout, spawned>>
             ELSE runShellCommand(
                    << <<"cmake">>, <<"--install">>, PathStr(ctx.build),
                       <<"--prefix">>, PathStr(ctx.install) >>,
                    ctx.print_only, "install", fs1,
                    IF ~isDirectoryEmpty(fs1.install)
                    THEN Append(stderr, Warning("InstallPathNotEmpty", ctx.install))
                    ELSE stderr,
                    "chain")

\* the test subcommand
Test ==
  /\ variant = "cli"
  /\ pc = "chain"
  /\ Len(invoked) < MaxChain
  /\ invoked' = Append(invoked, "test")
  /\ UNCHANGED <<variant, argv, env, order, fs0, ctx, cmds, run, prevOut>>
  /\ IF ~Exists(fs.build) \/ isDirectoryEmpty(fs.build)
     THEN /\ printFatalError(stderr, FatalError("BuildPathEmpty", ctx.build))
          /\ UNCHANGED <<fs, stdout, spawned>>
     ELSE runShellCommand(
            << IF ctx.generator = Ninja THEN <<"ninja">> ELSE <<"make">>,
               <<"-C">>, PathStr(ctx.build), argv.test >>,
            ctx.print_only, "test", fs, stderr, "chain")

\* the chain is over: click leaves the process with status 0
Finish ==
  /\ variant = "cli"
  /\ pc = "chain"
  /\ Len(invoked) >= 1
  /\ pc' = "done"
  /\ exitCode' = 0
  /\ UNCHANGED <<variant, argv, env, order, fs, fs0, ctx, cmds, invoked,
                 stdout, spawned, stderr, run, prevOut>>

\* ---------------------------------------------------------------- build.py
\* the configure vector main() builds from the args namespace a and locals o
main_config_command(a, o) ==
  << <<"cmake">>,
     <<"-S">> \o PathStr(a.source),
     <<"-B">> \o PathStr(a.build),
     <<"-G">> \o a.generator,
     <<"-DCMAKE_BUILD_TYPE=">> \o a.build_type,
     <<"-DCMAKE_INSTALL_PREFIX=">> \o PathStr(a.install),
     <<"-DLLVM_ENABLE_PROJECTS=">> \o o.enable_projects,
     <<"-DLLVM_TARGETS_TO_BUILD=">> \o o.enable_targets,
     <<"-DCLANG_DEFAULT_CXX_STDLIB=libc++">>,
     <<"-DLLVM_USE_LINKER=">> \o o.linker,
     <<"-DCLANG_VENDOR=OmpCluster">>,
     <<"-DLIBOMPTARGET_ENABLE_DEBUG=">> \o IntStr(o.debug_messages),
     <<"-DLLVM_ENABLE_ASSERTIONS=On">>,
     <<"-DCMAKE_CXX_FLAGS=-Wall">>,
     <<"-DCMAKE_EXPORT_COMPILE_COMMANDS=On">> >>
  \o (IF ~o.use_environment_compiler
      THEN << <<"-DCMAKE_C_COMPILER=">> \o o.clang_path,
              <<"-DCMAKE_CXX_COMPILER=">> \o o.clangxx_path >>
      ELSE <<>>)
  \o (IF ~o.disable_ccache THEN << <<"-DLLVM_CCACHE_BUILD=ON">> >> ELSE <<>>)
  \o (IF a.build_type = Debug
      THEN << <<"-DBUILD_SHARED_LIBS=1">>, <<"-DLLVM_USE_SPLIT_DWARF=1">> >>
      ELSE <<>>)

\* main(), up to the four command vectors: resolve the paths, check the
\* source, create the directories, probe the tools, join the sets
Main ==
  /\ variant = "main"
  /\ pc = "start"
  /\ UNCHANGED <<variant, argv, env, order, fs0, invoked, stdout, spawned,
                 run, prevOut>>
  /\ LET build_type == StrCapitalize(argv.build_type)
         branch_name == StrReplace(env.branch, "/", "-")
         install_path ==
           IF argv.install_path = NoPath
           THEN PathJoin(PathJoin(PathJoin(env.cwd, <<"installs">>),
                                  branch_name), StrLower(build_type))
           ELSE argv.install_path
         build0 == IF argv.build_path = NoPath
                   THEN PathJoin(PathJoin(env.cwd, <<"builds">>),
                                 StrLower(PathName(argv.source_path)))
                   ELSE argv.build_path
         a == [source |-> PathJoin(argv.source_path, <<"llvm">>),
               build |-> PathJoin(build0, StrLower(build_type)),
               install |-> install_path,
               build_type |-> build_type,
               print_only |-> argv.print_only,
               generator |-> argv.generator]
     IN IF ~Exists(fs.llvm)
        THEN /\ printFatalError(stderr, FatalError("SourcePathMissing", a.source))
             /\ UNCHANGED <<fs, ctx, cmds>>
        ELSE LET err1 == IF Exists(fs.build) /\ ~isDirectoryEmpty(fs.build)
                         THEN Append(stderr, Warning("BuildPathNotEmpty", a.build))
                         ELSE stderr
                 fs1 == [fs EXCEPT
                           !.build = MakeDir(a.print_only, fs.build),
                           !.install = MakeDir(a.print_only, fs.install)]
                 err2 == IF ~argv.disable_install /\ ~isDirectoryEmpty(fs1.install)
                         THEN Append(err1, Warning("InstallPathNotEmpty", a.install))
                         ELSE err1
                 no_ccache == ~argv.disable_ccache /\ env.ccache = NoneV
                 err3 == IF no_ccache
                         THEN Append(err2, Warning("CCacheNotInstalled", <<>>))
                         ELSE err2
                 no_clang == ~argv.use_env_compiler
                             /\ (env.clang = NoneV \/ env.clangxx = NoneV)
                 err4 == IF no_clang
                         THEN Append(err3, Warning("ClangNotFound", <<>>))
                         ELSE err3
                 o == [enable_projects |-> StrJoin(<<";">>, order.projects),
                       enable_targets |-> StrJoin(<<";">>, order.targets),
                       debug_messages |-> BoolInt(~argv.disable_debug_messages),
                       linker |-> argv.linker,
                       use_environment_compiler |->
                         argv.use_env_compiler \/ no_clang,
                       clang_path |-> env.clang,
                       clangxx_path |-> env.clangxx,
                       disable_ccache |-> argv.disable_ccache \/ no_ccache]
             IN /\ fs' = fs1
                /\ stderr' = err4
                /\ ctx' = a
                /\ cmds' =
                     [config |-> main_config_command(a, o),
                      build |-> << <<"cmake">>, <<"--build">>, PathStr(a.build) >>,
                      install |-> << <<"cmake">>, <<"--install">>,
                                     PathStr(a.build) >>,
                      test |-> << IF a.generator = Ninja THEN <<"ninja">>
                                  ELSE <<"make">>,
                                  <<"-C">>, PathStr(a.build), <<"check-all">> >>]
                /\ pc' = "m_config"
                /\ UNCHANGED exitCode

\* mutant: configuration is skipped when the build directory is populated
MainConfig_SkipIfConfigured ==
  /\ variant = "main"
  /\ pc = "m_config"
  /\ UNCHANGED <<variant, argv, env, order, fs0, ctx, cmds, invoked, run,
                 prevOut>>
  /\ IF fs.build = "full"
     THEN /\ pc' = "m_build"
          /\ UNCHANGED <<fs, stdout, spawned, stderr, exitCode>>
     ELSE runShellCommand(cmds.config, ctx.print_only, "config", fs, stderr,
                          "m_build")

\* main(): the CMake configuration stage
MainConfig ==
  /\ variant = "main"
  /\ pc = "m_config"
  /\ UNCHANGED <<variant, argv, env, order, fs0, ctx, cmds, invoked, run,
                 prevOut>>
  /\ runShellCommand(cmds.config, ctx.print_only, "config", fs, stderr,
                     "m_build")

\* main(): the build stage, unless --disable-build
MainBuild ==
  /\ variant = "main"
  /\ pc = "m_build"
  /\ UNCHANGED <<variant, argv, env, order, fs0, ctx, cmds, invoked, run,
                 prevOut>>
  /\ IF ~argv.disable_build
     THEN runShellCommand(cmds.build, ctx.print_only, "build", fs, stderr,
                          "m_install")
     ELSE /\ pc' = "m_install"
          /\ UNCHANGED <<fs, stdout, spawned, stderr, exitCode>>

\* main(): the install stage, unless --disable-install or --disable-build
MainInstall ==
  /\ variant = "main"
  /\ pc = "m_install"
  /\ UNCHANGED <<variant, argv, env, order, fs0, ctx, cmds, invoked, run,
                 prevOut>>
  /\ IF ~argv.disable_install /\ ~argv.disable_build
     THEN runShellCommand(cmds.install, ctx.print_only, "install", fs, stderr,
                          "m_test")
     ELSE /\ pc' = "m_test"
          /\ UNCHANGED <<fs, stdout, spawned, stderr, exitCode>>

\* main(): the test stage, unless --disable-tests or --disable-build
MainTest ==
  /\ variant = "main"
  /\ pc = "m_test"
  /\ UNCHANGED <<variant, argv, env, order, fs0, ctx, cmds, invoked, run,
                 prevOut>>
  /\ IF ~argv.disable_tests /\ ~argv.disable_build
     THEN runShellCommand(cmds.test, ctx.print_only, "test", fs, stderr,
                          "m_end")
     ELSE /\ pc' = "m_end"
          /\ UNCHANGED <<fs, stdout, spawned, stderr, exitCode>>

\* main() returns: the interpreter leaves with status 0
MainReturn ==
  /\ variant = "main"
  /\ pc = "m_end"
  /\ pc' = "done"
  /\ exitCode' = 0
  /\ UNCHANGED <<variant, argv, env, order, fs, fs0, ctx, cmds, invoked,
                 stdout, spawned, stderr, run, prevOut>>

\* the iteration orders the three sets of this command line can take
Orders(a) ==
  [projects : SetOrders(a.enable_projects),
   runtimes : SetOrders(a.enable_runtimes),
   targets : SetOrders(a.enable_targets)]

\* the script is started again with the same command line and environment;
\* the new process has its own hash salt
Rerun ==
  /\ pc = "done"
  /\ run < MaxRuns
  /\ run' = run + 1
  /\ prevOut' = stdout
  /\ order' \in Orders(argv)
  /\ fs0' = fs
  /\ pc' = "start"
  /\ ctx' = NoCtx
  /\ cmds' = NoCmds
  /\ invoked' = <<>>
  /\ stdout' = <<>>
  /\ spawned' = <<>>
  /\ stderr' = <<>>
  /\ exitCode' = Running
  /\ UNCHANGED <<variant, argv, env, fs>>

\* ---------------------------------------------------------------- inputs
\* the non-empty subsets of a catalog with at most k members
Choices(catalog, k) ==
  {S \in SUBSET Range(catalog) : Cardinality(S) >= 1 /\ Cardinality(S) <= k}

\* the command line with every option at its declared default
DefaultArgv ==
  [source_path |-> << <<"s">>, <<"P","r","o","j">> >>,
   build_path |-> NoPath,
   install_path |-> NoPath,
   build_type |-> Release,
   print_only |-> FALSE,
   generator |-> Ninja,
   disable_ccache |-> FALSE,
   use_env_compiler |-> FALSE,
   enable_projects |-> {clang},
   enable_runtimes |-> {openmp, libcxx, libcxxabi},
   enable_targets |-> {X86, NVPTX},
   disable_debug_messages |-> FALSE,
   disable_profiler |-> FALSE,
   linker |-> lld,
   jobs |-> NoJobs,
   test |-> <<"check-all">>,
   disable_build |-> FALSE,
   disable_install |-> FALSE,
   disable_tests |-> FALSE]

\* an environment with every tool installed
DefaultEnv ==
  [cwd |-> << <<"w">> >>,
   branch |-> <<"f","/","x">>,
   cpu_count |-> 8,
   ccache |-> <<"/usr/bin/ccache">>,
   clang |-> <<"/usr/bin/clang">>,
   clangxx |-> <<"/usr/bin/clang++">>]

\* the directory states a process can start in: the llvm root lies inside the
\* source path
Filesystems ==
  {f \in [source : {"missing", "full"}, llvm : {"missing", "full"},
          build : DirStates, install : DirStates] :
     Exists(f.llvm) => Exists(f.source)}

\* a checkout with its llvm root, and any build and install directory
GoodFilesystems == {f \in Filesystems : Exists(f.llvm)}

BuildPaths == {NoPath, << <<"o">>, <<"B">> >>}
BuildTypes == {Release, <<"d","e","b","u","g">>}

\* a process start; with allOrders every iteration order of the sets is
\* explored, otherwise one of them
InitFrom(v, A, E, F, allOrders) ==
  /\ variant = v
  /\ argv \in A
  /\ env \in E
  /\ order \in IF allOrders THEN Orders(argv)
               ELSE {CHOOSE o \in Orders(argv) : TRUE}
  /\ fs \in F
  /\ fs0 = fs
  /\ ctx = NoCtx
  /\ cmds = NoCmds
  /\ pc = "start"
  /\ invoked = <<>>
  /\ stdout = <<>>
  /\ spawned = <<>>
  /\ stderr = <<>>
  /\ exitCode = Running
  /\ run = 1
  /\ prevOut = <<>>

\* ---------------------------------------------------------------- pipeline
\* command lines that vary the paths, the build type, print-only and whether
\* the project and runtime sets overlap
CliPipelineArgv ==
  {[DefaultArgv EXCEPT !.print_only = po, !.build_path = bp, !.build_type = bt,
                       !.enable_projects = P, !.enable_runtimes = {openmp},
                       !.enable_targets = {X86}] :
     po \in BOOLEAN, bp \in BuildPaths, bt \in BuildTypes,
     P \in {{clang}, {openmp}}}

MainPipelineArgv ==
  {[DefaultArgv EXCEPT !.print_only = po, !.build_path = bp, !.build_type = bt,
                       !.enable_runtimes = {}, !.enable_targets = {X86},
                       !.disable_build = db, !.disable_install = di,
                       !.disable_tests = dt] :
     po \in BOOLEAN, bp \in BuildPaths, bt \in BuildTypes,
     db \in BOOLEAN, di \in BOOLEAN, dt \in BOOLEAN}

Init ==
  \/ InitFrom("cli", CliPipelineArgv, {DefaultEnv}, Filesystems, TRUE)
  \/ InitFrom("main", MainPipelineArgv, {DefaultEnv}, Filesystems, TRUE)

Next ==
  \/ Cli
  \/ Config
  \/ Build
  \/ Install
  \/ Test
  \/ Finish
  \/ Main
  \/ MainConfig
  \/ MainBuild
  \/ MainInstall
  \/ MainTest
  \/ MainReturn

Spec == Init /\ [][Next]_vars

\* ---------------------------------------------------------------- config
\* command lines "cli.py <source> config ..." that vary the project and the
\* runtime set
ConfigSetsArgv ==
  {[DefaultArgv EXCEPT !.enable_projects = P, !.enable_runtimes = R,
                       !.enable_targets = {X86}] :
     P \in Choices(llvm_projects, MaxProjects) \cup {{clang}},
     R \in Choices(llvm_runtimes, MaxRuntimes)
           \cup {{openmp, libcxx, libcxxabi}}}

\* print-only command lines "cli.py <source> -po config ..." that vary the
\* target set
ConfigTargetsArgv ==
  {[DefaultArgv EXCEPT !.print_only = TRUE, !.enable_targets = T] :
     T \in Choices(llvm_targets, MaxTargets) \cup {{X86, NVPTX}}}

\* a checkout with or without its llvm root, nothing built yet
FreshFilesystems ==
  {f \in Filesystems :
     Exists(f.source) /\ f.build = "missing" /\ f.install = "missing"}

\* print-only command lines "cli.py <source> -po config [-uec] [-l linker]"
ConfigCompilersArgv ==
  {[DefaultArgv EXCEPT !.print_only = TRUE, !.use_env_compiler = uec,
                       !.linker = l] :
     uec \in BOOLEAN, l \in Range(linker_options)}

\* machines with or without clang and clang++ on the PATH
CompilerEnvs ==
  {[DefaultEnv EXCEPT !.clang = c, !.clangxx = cxx] :
     c \in {NoneV, <<"/usr/bin/clang">>},
     cxx \in {NoneV, <<"/usr/bin/clang++">>}}

InitConfig ==
  \/ InitFrom("cli", ConfigSetsArgv, {DefaultEnv}, FreshFilesystems, FALSE)
  \/ InitFrom("cli", ConfigTargetsArgv, {DefaultEnv}, FreshFilesystems, TRUE)
  \/ InitFrom("cli", ConfigCompilersArgv, CompilerEnvs, FreshFilesystems,
              FALSE)

\* config is the only subcommand on the command line
ConfigOnce == invoked = <<>> /\ Config

NextConfig ==
  \/ Cli
  \/ ConfigOnce
  \/ Finish

SpecConfig == InitConfig /\ [][NextConfig]_vars

\* ---------------------------------------------------------------- two runs
\* the print-only command line with every option at its default
InitRerun ==
  \/ InitFrom("cli", {[DefaultArgv EXCEPT !.print_only = TRUE]},
              {DefaultEnv}, FreshFilesystems \cap GoodFilesystems, TRUE)
  \/ InitFrom("main",
              {[DefaultArgv EXCEPT !.print_only = TRUE,
                  !.enable_projects = {clang, openmp, libcxx, libcxxabi},
                  !.enable_runtimes = {}, !.enable_targets = {X86}]},
              {DefaultEnv}, FreshFilesystems \cap GoodFilesystems, TRUE)

NextRerun ==
  \/ Cli
  \/ ConfigOnce
  \/ Finish
  \/ Main
  \/ MainConfig
  \/ MainBuild
  \/ MainInstall
  \/ MainTest
  \/ MainReturn
  \/ Rerun

SpecRerun == InitRerun /\ [][NextRerun]_vars

\* ---------------------------------------------------------------- jobs
\* command lines "cli.py <source> build [--jobs n]" on machines with 1 to
\* MaxCpu processing units
JobsArgv ==
  {[DefaultArgv EXCEPT !.print_only = po, !.jobs = j] :
     po \in BOOLEAN, j \in {NoJobs, <<1>>, <<4>>}}

JobsEnv == {[DefaultEnv EXCEPT !.cpu_count = n] : n \in 1..MaxCpu}

InitJobs ==
  InitFrom("cli", JobsArgv, JobsEnv,
           {f \in GoodFilesystems : f.install = "missing"}, FALSE)

\* build is the only subcommand on the command line
BuildOnce == invoked = <<>> /\ Build

NextJobs ==
  \/ Cli
  \/ BuildOnce
  \/ Finish

SpecJobs == InitJobs /\ [][NextJobs]_vars

TypeOK ==
  /\ variant \in {"cli", "main"}
  /\ pc \in {"start", "chain", "m_config", "m_build", "m_install", "m_test",
             "m_end", "done"}
  /\ exitCode \in {Running, 0, 1}
  /\ fs \in Filesystems

\* ---------------------------------------------------------------- claims
StageRank(stage) ==
  CASE stage = "config" -> 1 [] stage = "build" -> 2
    [] stage = "install" -> 3 [] stage = "test" -> 4

\* C1: fail-fast.  A spawned command that returned a non-zero status is the
\* last command the run spawns, and the process has exited with status 1.
FailFast ==
  \A i \in 1..Len(spawned) :
     spawned[i].rc # 0 =>
        /\ i = Len(spawned)
        /\ pc = "done"
        /\ exitCode = 1

\* build.py with the build stage enabled: configure failed, nothing followed
FailFastWitness ==
  /\ variant = "main"
  /\ ~argv.disable_build
  /\ Len(spawned) = 1
  /\ spawned[1].stage = "config"
  /\ spawned[1].rc # 0
  /\ exitCode = 1

\* C2: dry run has no effects.  With print-only set no external process is
\* spawned and every directory is as it was when the process started.
DryRunNoEffects ==
  argv.print_only => spawned = <<>> /\ fs = fs0

\* a print-only run that went through a stage although the build directory
\* does not exist
DryRunNoEffectsWitness ==
  /\ argv.print_only
  /\ pc = "done"
  /\ exitCode = 0
  /\ Len(stdout) >= 1
  /\ fs0.build = "missing"
  /\ fs0.install = "missing"

\* C3: dry run succeeds regardless of prerequisites.  A print-only run of
\* cli.py on a checkout with its llvm root and disjoint sets ends with
\* status 0, whatever the state of the build and install directories.
DryRunSucceeds ==
  ( /\ variant = "cli"
    /\ argv.print_only
    /\ Exists(fs0.llvm)
    /\ argv.enable_projects \cap argv.enable_runtimes = {}
    /\ pc = "done" )
  => exitCode = 0

\* C4: prerequisite enforcement.  When cli.py invokes build, install or test
\* and the build directory is missing or empty, the stage writes the fatal
\* "Build path empty" error, exits with status 1 and spawns nothing; when the
\* directory is populated the stage does not write that error.
PrerequisiteEnforced ==
  [][ ( /\ variant = "cli"
        /\ Len(invoked') = Len(invoked) + 1
        /\ invoked'[Len(invoked')] \in {"build", "install", "test"} )
      => IF fs.build \in {"missing", "empty"}
         THEN /\ stderr' = Append(stderr, [kind |-> "Fatal",
                                           id |-> "BuildPathEmpty",
                                           arg |-> ctx.build])
              /\ exitCode' = 1
              /\ pc' = "done"
              /\ spawned' = spawned
              /\ stdout' = stdout
         ELSE ~ ( /\ Len(stderr') > Len(stderr)
                  /\ stderr'[Len(stderr')].id = "BuildPathEmpty" ) ]_vars

\* the test stage was requested on an existing but empty build directory
PrerequisiteEnforcedWitness ==
  /\ variant = "cli"
  /\ ~argv.print_only
  /\ invoked = <<"test">>
  /\ fs.build = "empty"
  /\ pc = "done"
  /\ exitCode = 1
  /\ spawned = <<>>
  /\ stderr[Len(stderr)].id = "BuildPathEmpty"

\* C9 as stated: the commands of a run are spawned in the order configure,
\* build, install, test, and the first of them is the configure command.
StageOrderFixed ==
  /\ Len(spawned) >= 1 => spawned[1].stage = "config"
  /\ \A i, j \in 1..Len(spawned) :
        i < j => StageRank(spawned[i].stage) < StageRank(spawned[j].stage)

\* C9, amended: cli.py spawns the stage commands in the order the subcommands
\* are given on the command line; build.py spawns them in the order
\* configure, build, install, test with configure first.
StageOrderAsGiven ==
  /\ variant = "cli" =>
       /\ Len(spawned) <= Len(invoked)
       /\ \A i \in 1..Len(spawned) : spawned[i].stage = invoked[i]
  /\ variant = "main" => StageOrderFixed

\* cli.py ran build and then config on an already populated build directory
StageOrderAsGivenWitness ==
  /\ variant = "cli"
  /\ Len(spawned) = 2
  /\ spawned[1].stage = "build"
  /\ spawned[2].stage = "config"

\* the lowercased form of the names the command lines explored contain
Lowered(t) ==
  CASE t = <<"P","r","o","j">> -> <<"p","r","o","j">>
    [] t = <<"R","e","l","e","a","s","e">> -> <<"r","e","l","e","a","s","e">>
    [] t = <<"D","e","b","u","g">> -> <<"d","e","b","u","g">>
    [] t = <<"d","e","b","u","g">> -> <<"d","e","b","u","g">>

\* the build path the command line asks for
ExpectedBuildPath ==
  (IF argv.build_path = <<>>
   THEN env.cwd \o << <<"builds">>, Lowered(argv.source_path[Len(argv.source_path)]) >>
   ELSE argv.build_path)
  \o << Lowered(argv.build_type) >>

\* the build path argument of a printed command line
BuildPathArg(cmd) ==
  IF cmd[2] \in {<<"--build">>, <<"--install">>, <<"-C">>} THEN cmd[3]
  ELSE SubSeq(cmd[3], 2, Len(cmd[3]))

\* C10: once resolved, the build path is the override or
\* <cwd>/builds/<lowercased source name>, followed by the lowercased build
\* type; every command line of the run carries exactly this path; and no
\* later step changes the resolved values.
BuildPathThreaded ==
  /\ [] ( ctx.build # <<>> =>
            /\ ctx.build = ExpectedBuildPath
            /\ \A i \in 1..Len(stdout) :
                  BuildPathArg(stdout[i]) = PathStr(ExpectedBuildPath) )
  /\ [][ ctx.build # <<>> => ctx' = ctx ]_vars

\* a run with the default build path and a lower-case "debug" build type
\* that printed three command lines
BuildPathThreadedWitness ==
  /\ argv.build_path = <<>>
  /\ ctx.build = << <<"w">>, <<"builds">>, <<"p","r","o","j">>,
                    <<"d","e","b","u","g">> >>
  /\ Len(stdout) = 3
  /\ ctx.build_type = <<"D","e","b","u","g">>

\* the configure command lines printed so far
ConfigCommands ==
  {stdout[i] : i \in {k \in 1..Len(stdout) : stdout[k][3][1] = "-B"}}

\* C5: disjointness validation.  When config reaches the validator (the
\* checkout has its llvm root), it ends with the fatal error that carries the
\* intersection of the two sets, status 1 and nothing printed or spawned,
\* exactly if the sets intersect; for disjoint sets no such error is written
\* and the configure command is synthesized.
DisjointnessValidated ==
  LET P == argv.enable_projects
      R == argv.enable_runtimes
      rejected == \E i \in 1..Len(stderr) : stderr[i].id = "NotDisjoint"
  IN /\ rejected => P \cap R # {}
     /\ (variant = "cli" /\ invoked = <<"config">> /\ fs0.llvm # "missing") =>
          IF P \cap R # {}
          THEN /\ Len(stderr) >= 1
               /\ stderr[Len(stderr)] =
                    [kind |-> "Fatal", id |-> "NotDisjoint",
                     arg |-> <<P, R, P \cap R>>]
               /\ pc = "done"
               /\ exitCode = 1
               /\ spawned = <<>>
               /\ stdout = <<>>
          ELSE /\ ~rejected
               /\ Len(stdout) = 1
               /\ ConfigCommands = {stdout[1]}

\* two projects of which one is also enabled as a runtime
DisjointnessValidatedWitness ==
  /\ variant = "cli"
  /\ ~argv.print_only
  /\ invoked = <<"config">>
  /\ Cardinality(argv.enable_projects) = 2
  /\ Cardinality(argv.enable_projects \cap argv.enable_runtimes) = 1
  /\ pc = "done"
  /\ exitCode = 1
  /\ stderr[Len(stderr)].id = "NotDisjoint"

\* C6: determinism of command synthesis.  Two runs with the same command
\* line and environment print the same configure argument vector.
SynthesisDeterministic ==
  (run >= 2 /\ Len(prevOut) >= 1 /\ Len(stdout) >= 1)
  => stdout[1] = prevOut[1]

\* C7: GPU-target implication.  A synthesized configure command of cli.py
\* carries -DCLANG_OPENMP_NVPTX_DEFAULT_ARCH and
\* -DLIBOMPTARGET_NVPTX_COMPUTE_CAPABILITIES if NVPTX is an enabled target,
\* and neither of them if it is not.
GpuTargetFlags ==
  \A cmd \in ConfigCommands :
     LET arch == \E k \in 1..Len(cmd) :
                   cmd[k] = <<"-DCLANG_OPENMP_NVPTX_DEFAULT_ARCH=sm_86">>
         caps == \E k \in 1..Len(cmd) :
                   cmd[k] = <<"-DLIBOMPTARGET_NVPTX_COMPUTE_CAPABILITIES=86">>
     IN variant = "cli" =>
          IF <<"N","V","P","T","X">> \in argv.enable_targets
          THEN arch /\ caps
          ELSE ~arch /\ ~caps

\* NVPTX enabled with another target that comes first in the joined list
GpuTargetFlagsWitness ==
  /\ variant = "cli"
  /\ Cardinality(argv.enable_targets) = 2
  /\ order.targets[2] = <<"N","V","P","T","X">>
  /\ Len(stdout) = 1
  /\ \E k \in 1..Len(stdout[1]) :
        stdout[1][k] = <<"-DLIBOMPTARGET_NVPTX_COMPUTE_CAPABILITIES=86">>

\* the number a decimal text stands for
Parsed(text) == CHOOSE k \in 0..(10 * MaxCpu) : IntStr(k) = text

\* C8: default job count.  Without --jobs the value after -j in a build
\* command is 90% of the number of processing units rounded down, and it is
\* at least 1.
DefaultJobCount ==
  \A i \in 1..Len(stdout) :
     (argv.jobs = <<>> /\ stdout[i][2] = <<"--build">>) =>
        /\ stdout[i][4] = <<"-j">>
        /\ Parsed(stdout[i][5]) >= 1
        /\ (9 * env.cpu_count) \div 10 >= 1 =>
              Parsed(stdout[i][5]) = (9 * env.cpu_count) \div 10

\* C11: standalone flag from set membership.  A synthesized configure
\* command of cli.py carries -DOPENMP_STANDALONE_BUILD=1 if the project
\* "openmp" is enabled and the project "clang" is not, whatever other
\* projects are enabled, and -DOPENMP_STANDALONE_BUILD=0 otherwise.
StandaloneFromMembership ==
  \A cmd \in ConfigCommands :
     LET standalone ==
           /\ <<"o","p","e","n","m","p">> \in argv.enable_projects
           /\ <<"c","l","a","n","g">> \notin argv.enable_projects
         flag(d) == \E k \in 1..Len(cmd) :
                      cmd[k] = <<"-DOPENMP_STANDALONE_BUILD=", d>>
     IN variant = "cli" =>
          IF standalone THEN flag("1") /\ ~flag("0")
          ELSE flag("0") /\ ~flag("1")

\* C12: compiler fallback.  The "Clang not found" warning is written exactly
\* when --use-env-compiler was not given and clang or clang++ is missing;
\* the configure command carries -DCMAKE_C_COMPILER, -DCMAKE_CXX_COMPILER and
\* -DLLVM_USE_LINKER exactly when --use-env-compiler was not given and both
\* were found, so no compiler flag carries None; and a missing compiler is
\* never fatal.
CompilerFallback ==
  LET missing == env.clang = <<"None">> \/ env.clangxx = <<"None">>
      warned == \E i \in 1..Len(stderr) : stderr[i].id = "ClangNotFound"
      explicit == ~argv.use_env_compiler /\ ~missing
      has(cmd, text) == \E k \in 1..Len(cmd) : cmd[k] = text
  IN (variant = "cli" /\ invoked = <<"config">> /\ fs0.llvm # "missing"
      /\ argv.enable_projects \cap argv.enable_runtimes = {}) =>
       /\ warned <=> (~argv.use_env_compiler /\ missing)
       /\ Len(stdout) = 1
       /\ has(stdout[1], <<"-DCMAKE_C_COMPILER=">> \o env.clang) <=> explicit
       /\ has(stdout[1], <<"-DCMAKE_CXX_COMPILER=">> \o env.clangxx)
            <=> explicit
       /\ has(stdout[1], <<"-DLLVM_USE_LINKER=">> \o argv.linker) <=> explicit
       /\ \A k \in 1..Len(stdout[1]) :
             stdout[1][k][1] \in {"-DCMAKE_C_COMPILER=", "-DCMAKE_CXX_COMPILER="}
             => stdout[1][k][2] # "None"
       /\ argv.print_only => exitCode # 1

====
